---- MODULE Spec2Model ----
(***************************************************************************)
(* A model of the matching engine of hft-sim.cpp: the order pool, the      *)
(* per-price ring buffers, the order book with its best-bid/best-ask       *)
(* caches, the clientId -> engineId map and the trade log, with the four   *)
(* public operations placeLimit, placeMarket, cancel and replace.          *)
(*                                                                         *)
(* Timestamps (Order::ts, Trade::ts) are wall-clock readings that no       *)
(* operation ever reads back; they are left out of the records.            *)
(***************************************************************************)
EXTENDS Integers, Sequences, FiniteSets, TLC

\* ------------------------------- CONFIG ----------------------------------
\* The three capacities of the source, scaled down.
PRICE_LEVELS == 3
ORDER_POOL_CAPACITY == 4
RING_CAPACITY_PER_LEVEL == 4

\* Inputs the callers draw from.
MaxClient == 2
MaxQty == 2
\* The number of calls explored on a freshly constructed engine, and on an
\* engine that starts with preloaded liquidity.
MaxCalls == 3
MaxLoadedCalls == 2
\* The same two numbers where the callers pass any integers.
MaxAnyCalls == 2
MaxAnyLoadedCalls == 2
\* The same two numbers, and the largest quantity of a taker, where the match
\* loops are followed one iteration at a time.
MaxSweepCalls == 2
MaxLoadedSweepCalls == 2
MaxSweepQty == 4

\* The value of an unused ring cell (UINT64_MAX never is an engine id).
UINT64_MAX == -1

BUY == "BUY"
SELL == "SELL"
LIMIT == "LIMIT"
MARKET == "MARKET"
GFD == "GFD"
IOC == "IOC"
FOK == "FOK"

Sides == {BUY, SELL}
TIFs == {GFD, IOC, FOK}
Clients == 1..MaxClient
Prices == 0..(PRICE_LEVELS - 1)
Qtys == 1..MaxQty
Slots == 0..(ORDER_POOL_CAPACITY - 1)
Cells == 0..(RING_CAPACITY_PER_LEVEL - 1)

\* min that returns its first argument: fill = maker.qty.
MinIsFirst(a, b) == a

Min(a, b) == IF a < b THEN a ELSE b

\* ------------------------------- ORDER -----------------------------------
DefaultOrder ==
  [clientId |-> 0, engineId |-> 0, side |-> BUY, type |-> LIMIT, tif |-> GFD,
   priceIdx |-> -1, qty |-> 0, active |-> FALSE]

\* --------------------------- ORDER POOL ----------------------------------
\* OrderPool(cap): every slot default-constructed, freeList = cap-1, ..., 0.
InitPool == [i \in Slots |-> DefaultOrder]
InitFreeList == [i \in 1..ORDER_POOL_CAPACITY |-> ORDER_POOL_CAPACITY - i]

\* ----------------------- RING BUFFER (PER PRICE LEVEL) -------------------
InitRing ==
  [data |-> [i \in Cells |-> UINT64_MAX], head |-> 0, tail |-> 0, totalQty |-> 0]

RingEmpty(r) == r.head = r.tail
RingFull(r) == ((r.tail + 1) % RING_CAPACITY_PER_LEVEL) = r.head
RingFront(r) == r.data[r.head]
\* push that sets the aggregate to the pushed quantity (= for +=).
RingPushSetsTotal(r, eid, qty) ==
  [r EXCEPT !.data[r.tail] = eid,
            !.tail = (r.tail + 1) % RING_CAPACITY_PER_LEVEL,
            !.totalQty = qty]

\* push and pop_front once their full()/empty() checks have passed.
RingPush(r, eid, qty) ==
  [r EXCEPT !.data[r.tail] = eid,
            !.tail = (r.tail + 1) % RING_CAPACITY_PER_LEVEL,
            !.totalQty = r.totalQty + qty]
RingPopFront(r, qty) ==
  [r EXCEPT !.data[r.head] = UINT64_MAX,
            !.head = (r.head + 1) % RING_CAPACITY_PER_LEVEL,
            !.totalQty = r.totalQty - qty]

\* The engine ids a ring holds, head to tail (what a scan of the ring sees).
RECURSIVE RingItemsFrom(_, _)
RingItemsFrom(r, pos) ==
  IF pos = r.tail THEN <<>>
  ELSE <<r.data[pos]>> \o RingItemsFrom(r, (pos + 1) % RING_CAPACITY_PER_LEVEL)
RingItems(r) == RingItemsFrom(r, r.head)

\* ------------------------------- ENGINE STATE ----------------------------
\* One value of the whole engine, threaded through the operators below:
\*   pool, freeList           OrderPool
\*   bids, asks, bestBid, bestAsk   OrderBook
\*   clientToEngine, trades   Engine
\*   admitted, prio           history (see below), not program state
\*   fault                    the exception the current call ended with
\* admitted lists the engine ids of the orders on the book in the order they
\* were pushed; prio records, per trade, the maker the code took, the order
\* price/time priority names at that moment, the length of the maker's queue,
\* the level the maker was taken from and what taker and maker had left.
NoFault == "none"

InitEngine ==
  [pool |-> InitPool, freeList |-> InitFreeList,
   bids |-> [i \in Prices |-> InitRing], asks |-> [i \in Prices |-> InitRing],
   bestBid |-> -1, bestAsk |-> -1,
   clientToEngine |-> <<>>, trades |-> <<>>,
   admitted |-> <<>>, prio |-> <<>>, fault |-> NoFault]

Opposite(s) == IF s = BUY THEN SELL ELSE BUY
LevelsOf(e, s) == IF s = BUY THEN e.bids ELSE e.asks
SetLevel(e, s, idx, r) ==
  IF s = BUY THEN [e EXCEPT !.bids[idx] = r] ELSE [e EXCEPT !.asks[idx] = r]
BestOf(e, s) == IF s = BUY THEN e.bestBid ELSE e.bestAsk

\* An erase that is left out.
MapEraseSkipped(m, c) == m

\* unordered_map erase / operator[]=
MapErase(m, c) == [x \in (DOMAIN m) \ {c} |-> m[x]]
MapPut(m, c, v) == [x \in (DOMAIN m) \cup {c} |-> IF x = c THEN v ELSE m[x]]

SeqWithout(q, x) == SelectSeq(q, LAMBDA y : y # x)

\* allocate that sets engineId and active before it copies the order into the
\* slot, so that the copy overwrites them.
PoolAllocateCopiesLast(e, o) ==
  LET idx == e.freeList[Len(e.freeList)]
  IN [e EXCEPT !.freeList = SubSeq(e.freeList, 1, Len(e.freeList) - 1),
               !.pool[idx] = o]

\* OrderPool::allocate on a non-empty free list (the caller tests emptiness).
PoolAllocate(e, o) ==
  LET idx == e.freeList[Len(e.freeList)]
  IN [e EXCEPT !.freeList = SubSeq(e.freeList, 1, Len(e.freeList) - 1),
               !.pool[idx] = [o EXCEPT !.engineId = idx, !.active = TRUE]]

\* free that leaves the slot marked active.
PoolFreeKeepsActive(e, idx) ==
  [e EXCEPT !.pool[idx].qty = 0, !.freeList = Append(e.freeList, idx)]

\* free that resets the whole slot to a default Order.
PoolFreeResets(e, idx) ==
  [e EXCEPT !.pool[idx] = DefaultOrder, !.freeList = Append(e.freeList, idx)]

\* OrderPool::free
PoolFree(e, idx) ==
  [e EXCEPT !.pool[idx].active = FALSE, !.pool[idx].qty = 0,
            !.freeList = Append(e.freeList, idx)]

\* ------------------------------- ORDER BOOK -------------------------------
\* updateBestAfterAdd with the ask comparison turned around.
updateBestAfterAddAskUp(e, s, idx) ==
  IF s = BUY
    THEN (IF e.bestBid < idx THEN [e EXCEPT !.bestBid = idx] ELSE e)
    ELSE (IF e.bestAsk = -1 \/ idx > e.bestAsk THEN [e EXCEPT !.bestAsk = idx] ELSE e)

updateBestAfterAdd(e, s, idx) ==
  IF s = BUY
    THEN (IF e.bestBid < idx THEN [e EXCEPT !.bestBid = idx] ELSE e)
    ELSE (IF e.bestAsk = -1 \/ idx < e.bestAsk THEN [e EXCEPT !.bestAsk = idx] ELSE e)

RECURSIVE ScanBids(_, _)
ScanBids(bids, i) ==
  IF i < 0 THEN -1
  ELSE IF ~RingEmpty(bids[i]) THEN i ELSE ScanBids(bids, i - 1)

RECURSIVE ScanAsks(_, _)
ScanAsks(asks, i) ==
  IF i >= PRICE_LEVELS THEN -1
  ELSE IF ~RingEmpty(asks[i]) THEN i ELSE ScanAsks(asks, i + 1)

\* updateBestAfterRemove that leaves the cached best as it is.
updateBestAfterRemoveSkipped(e, s, idx) == e

\* updateBestAfterRemove without the scan: the side is taken to be empty.
updateBestAfterRemoveNoScan(e, s, idx) ==
  IF s = BUY
    THEN (IF e.bestBid # idx THEN e ELSE [e EXCEPT !.bestBid = -1])
    ELSE (IF e.bestAsk # idx THEN e ELSE [e EXCEPT !.bestAsk = -1])

updateBestAfterRemove(e, s, idx) ==
  IF s = BUY
    THEN (IF e.bestBid # idx THEN e ELSE [e EXCEPT !.bestBid = ScanBids(e.bids, idx)])
    ELSE (IF e.bestAsk # idx THEN e ELSE [e EXCEPT !.bestAsk = ScanAsks(e.asks, idx)])

\* ------------------------------- MATCHING --------------------------------
\* Price/time priority, from the book contents alone: the best non-empty
\* level of side s and, of the orders on it, the one admitted first.
TrueBest(e, s) ==
  LET ne == {i \in Prices : ~RingEmpty(LevelsOf(e, s)[i])}
  IN IF ne = {} THEN -1
     ELSE IF s = BUY THEN CHOOSE i \in ne : \A j \in ne : j <= i
                     ELSE CHOOSE i \in ne : \A j \in ne : i <= j

Range(q) == {q[i] : i \in DOMAIN q}

FirstAdmitted(e, s) ==
  LET b == TrueBest(e, s)
      here == IF b = -1 THEN {} ELSE Range(RingItems(LevelsOf(e, s)[b]))
      first == SelectSeq(e.admitted, LAMBDA x : x \in here)
  IN IF first = <<>> THEN UINT64_MAX ELSE first[1]

\* emitTrade that records what the taker still wanted, not what was filled.
emitTradeTakerQty(e, taker, maker, qty, priceIdx) ==
  [e EXCEPT !.trades = Append(e.trades,
      [takerClient |-> taker.clientId, makerClient |-> maker.clientId,
       qty |-> taker.qty, priceIdx |-> priceIdx])]

\* emitTrade that records the taker's price, not the price it is handed.
emitTradeAtTakerPrice(e, taker, maker, qty, priceIdx) ==
  [e EXCEPT !.trades = Append(e.trades,
      [takerClient |-> taker.clientId, makerClient |-> maker.clientId,
       qty |-> qty, priceIdx |-> taker.priceIdx])]

emitTrade(e, taker, maker, qty, priceIdx) ==
  [e EXCEPT !.trades = Append(e.trades,
      [takerClient |-> taker.clientId, makerClient |-> maker.clientId,
       qty |-> qty, priceIdx |-> priceIdx])]

\* The free of a filled maker without the erase of its ClientIndex entry.
RetireMakerKeepsIndex(e, makerEid) ==
  [PoolFree(e, makerEid) EXCEPT !.admitted = SeqWithout(e.admitted, makerEid)]

\* A maker filled to zero, after its pop_front: pool.free(makerEid) and
\* clientToEngine.erase(maker.clientId); maker is a reference into the pool,
\* read after the free.
RetireMaker(e, makerEid) ==
  LET e1 == PoolFree(e, makerEid)
  IN [e1 EXCEPT !.clientToEngine = MapErase(e1.clientToEngine, e1.pool[makerEid].clientId),
                !.admitted = SeqWithout(e1.admitted, makerEid)]

\* One iteration of a match loop against makers of side ms; x = [e, taker].
\* The body is written out four times in the source (183-189, 197-203,
\* 214-220, 224-230), identical up to the side.
MatchStep(x, ms) ==
  LET e == x.e
      taker == x.taker
      best == BestOf(e, ms)
      pl == LevelsOf(e, ms)[best]
  IN IF RingEmpty(pl) THEN [e |-> updateBestAfterRemove(e, ms, best), taker |-> taker]
     ELSE
       LET makerEid == RingFront(pl)
           maker == e.pool[makerEid]
           fill == Min(maker.qty, taker.qty)
           e1 == [emitTrade(e, taker, maker, fill, maker.priceIdx)
                    EXCEPT !.prio = Append(e.prio,
                      [maker |-> makerEid, first |-> FirstAdmitted(e, ms),
                       queued |-> Len(RingItems(pl)), level |-> best,
                       takerQty |-> taker.qty, makerQty |-> maker.qty])]
           e2 == [e1 EXCEPT !.pool[makerEid].qty = maker.qty - fill]
           pl2 == [pl EXCEPT !.totalQty = pl.totalQty - fill]
           taker2 == [taker EXCEPT !.qty = taker.qty - fill]
           gone == (maker.qty - fill = 0)
           pl3 == IF gone THEN RingPopFront(pl2, 0) ELSE pl2
           e3 == SetLevel(e2, ms, best, pl3)
           e4 == IF gone THEN RetireMaker(e3, makerEid) ELSE e3
           e5 == IF RingEmpty(pl3) THEN updateBestAfterRemove(e4, ms, best) ELSE e4
       IN [e |-> e5, taker |-> taker2]

\* Crosses with the comparison made strict: an order priced exactly at the best
\* opposite level does not match.
CrossesStrictly(e, taker) ==
  IF taker.side = BUY
    THEN e.bestAsk # -1 /\ e.bestAsk < taker.priceIdx
    ELSE e.bestBid # -1 /\ e.bestBid > taker.priceIdx

\* The loop condition of matchAndAdd: the best opposite level crosses the limit.
Crosses(e, taker) ==
  IF taker.side = BUY
    THEN e.bestAsk # -1 /\ e.bestAsk <= taker.priceIdx
    ELSE e.bestBid # -1 /\ e.bestBid >= taker.priceIdx

RECURSIVE LimitLoop(_)
LimitLoop(x) ==
  IF x.taker.qty > 0 /\ Crosses(x.e, x.taker)
    THEN LimitLoop(MatchStep(x, Opposite(x.taker.side)))
    ELSE x

\* "add passive": allocate, push, updateBestAfterAdd, clientToEngine[...] = eid.
\* allocate and push throw; what was done before the throw stays.
\* book.bids[taker.priceIdx] is an unchecked vector access: with an index
\* outside the book the call's behaviour is undefined from there on, which the
\* result reports as fault OutOfBounds (see OutOfBoundsOutcomes).
AddPassive(e, taker) ==
  IF e.freeList = <<>> THEN [e EXCEPT !.fault = "PoolExhausted"]
  ELSE
    LET eid == e.freeList[Len(e.freeList)]
        e1 == PoolAllocate(e, taker)
        lvl == LevelsOf(e1, taker.side)[taker.priceIdx]
    IN IF taker.priceIdx \notin Prices THEN [e1 EXCEPT !.fault = "OutOfBounds"]
       ELSE IF RingFull(lvl) THEN [e1 EXCEPT !.fault = "LevelFull"]
       ELSE
         LET e2 == SetLevel(e1, taker.side, taker.priceIdx, RingPush(lvl, eid, taker.qty))
             e3 == updateBestAfterAdd(e2, taker.side, taker.priceIdx)
         IN [e3 EXCEPT !.clientToEngine = MapPut(e3.clientToEngine, taker.clientId, eid),
                       !.admitted = Append(e3.admitted, eid)]

\* matchAndAdd that rests the order as submitted, not what the sweep left.
matchAndAddRestsSubmitted(e, taker) ==
  LET x == LimitLoop([e |-> e, taker |-> taker])
  IN IF x.taker.qty > 0 /\ x.taker.type = LIMIT
       THEN AddPassive(x.e, taker)
       ELSE x.e

matchAndAdd(e, taker) ==
  LET x == LimitLoop([e |-> e, taker |-> taker])
  IN IF x.taker.qty > 0 /\ x.taker.type = LIMIT
       THEN AddPassive(x.e, x.taker)
       ELSE x.e

\* The market sweep run under the limit sweep's price guard.
MarketLoopPriceGuarded(x) == LimitLoop(x)

RECURSIVE MarketLoop(_)
MarketLoop(x) ==
  IF x.taker.qty > 0 /\ BestOf(x.e, Opposite(x.taker.side)) # -1
    THEN MarketLoop(MatchStep(x, Opposite(x.taker.side)))
    ELSE x

matchMarket(e, taker) == MarketLoop([e |-> e, taker |-> taker]).e

placeLimit(e, clientId, side, priceIdx, qty, tif) ==
  matchAndAdd(e, [DefaultOrder EXCEPT !.clientId = clientId, !.side = side,
                    !.type = LIMIT, !.priceIdx = priceIdx, !.qty = qty, !.tif = tif])

placeMarket(e, clientId, side, qty) ==
  matchMarket(e, [DefaultOrder EXCEPT !.clientId = clientId, !.side = side,
                    !.type = MARKET, !.priceIdx = -1, !.qty = qty])

\* ------------------------------- CANCEL ----------------------------------
\* The linear scan from head to tail; -1 when eid is not in the ring.
RECURSIVE FindPos(_, _, _)
FindPos(lvl, pos, eid) ==
  IF pos = lvl.tail THEN -1
  ELSE IF lvl.data[pos] = eid THEN pos
  ELSE FindPos(lvl, (pos + 1) % RING_CAPACITY_PER_LEVEL, eid)

\* ShiftBack as a swap-remove: the hole is filled with the last order of the
\* queue instead of shifting the queue.
MoveLastIntoHole(data, cur, lastCell) == [data EXCEPT ![cur] = data[lastCell]]

\* "remove by shifting items backwards": from cur up to the last used cell.
RECURSIVE ShiftBack(_, _, _)
ShiftBack(data, cur, lastCell) ==
  IF cur = lastCell THEN data
  ELSE LET next == (cur + 1) % RING_CAPACITY_PER_LEVEL
       IN ShiftBack([data EXCEPT ![cur] = data[next]], next, lastCell)

\* Engine::cancel; the result is [e, ret]. o is a reference into the pool: the
\* refresh of best-of-side reads its side and price after the free.
cancel(e, clientId) ==
  IF clientId \notin DOMAIN e.clientToEngine THEN [e |-> e, ret |-> FALSE]
  ELSE
    LET eid == e.clientToEngine[clientId]
        o == e.pool[eid]
        erased == MapErase(e.clientToEngine, clientId)
    IN IF ~o.active THEN [e |-> [e EXCEPT !.clientToEngine = erased], ret |-> FALSE]
       ELSE
         LET lvl == LevelsOf(e, o.side)[o.priceIdx]
             sz == RING_CAPACITY_PER_LEVEL
             pos == FindPos(lvl, lvl.head, eid)
         IN IF pos = -1
              THEN [e |-> [PoolFree(e, eid) EXCEPT !.clientToEngine = erased,
                                                   !.admitted = SeqWithout(e.admitted, eid)],
                    ret |-> FALSE]
              ELSE
                LET lastCell == (lvl.tail + sz - 1) % sz
                    lvl2 == [lvl EXCEPT !.data = ShiftBack(lvl.data, pos, lastCell),
                                        !.tail = lastCell,
                                        !.totalQty = lvl.totalQty - o.qty]
                    e1 == SetLevel(e, o.side, o.priceIdx, lvl2)
                    e2 == [PoolFree(e1, eid) EXCEPT !.clientToEngine = erased,
                                                    !.admitted = SeqWithout(e.admitted, eid)]
                    e3 == IF RingEmpty(lvl2)
                            THEN updateBestAfterRemove(e2, e2.pool[eid].side,
                                                       e2.pool[eid].priceIdx)
                            ELSE e2
                IN [e |-> e3, ret |-> TRUE]

\* Engine::replace; old is a reference into the pool, read after the cancel.
replace(e, clientId, newPriceIdx, newQty) ==
  IF clientId \notin DOMAIN e.clientToEngine THEN [e |-> e, ret |-> FALSE]
  ELSE
    LET oldEid == e.clientToEngine[clientId]
    IN IF ~e.pool[oldEid].active THEN [e |-> e, ret |-> FALSE]
       ELSE
         LET e1 == cancel(e, clientId).e
             old == e1.pool[oldEid]
         IN [e |-> placeLimit(e1, clientId, old.side, newPriceIdx, newQty, old.tif),
             ret |-> TRUE]

\* ------------------------------- STATE -----------------------------------
VARIABLES pool, freeList, bids, asks, bestBid, bestAsk, clientToEngine, trades,
          admitted, prio, last, budget, reused, prev, acct, sweep

vars == <<pool, freeList, bids, asks, bestBid, bestAsk, clientToEngine, trades,
          admitted, prio, last, budget, reused, prev, acct, sweep>>

\* The engine as one value.
Eng ==
  [pool |-> pool, freeList |-> freeList, bids |-> bids, asks |-> asks,
   bestBid |-> bestBid, bestAsk |-> bestAsk, clientToEngine |-> clientToEngine,
   trades |-> trades, admitted |-> admitted, prio |-> prio, fault |-> NoFault]

\* reused: some limit order was submitted under a client id that had an order
\* on the book at that moment (history, not program state).
\* prev: the engine as the last call found it (history, not program state).
\* last: the call that produced the current state, and how it returned
\* ("void", "true", "false", or "throw" with the exception in fault).
\* acct: per client id, what its calls submitted as limit orders, what its
\* cancels (and the cancel half of its replaces) took off the book, what a
\* capacity fault dropped of its orders, and whether all it ever submitted were
\* GFD limit orders of positive quantity at a price of the book (history, not
\* program state).
\* sweep: where a placeLimit / placeMarket call stands when its match loop is
\* followed one iteration at a time (SpecSweep): "idle" between calls, "loop"
\* with the taker as the loop has left it and the number of iterations done
\* (history); Idle throughout where the calls are taken whole.
Idle == [pc |-> "idle", taker |-> DefaultOrder, iters |-> 0]

NoCall ==
  [op |-> "init", clientId |-> 0, side |-> BUY, priceIdx |-> -1, qty |-> 0,
   tif |-> GFD, ret |-> "void", fault |-> NoFault]

\* A call as a value, and its effect on the engine.
LimitCall(c, s, p, q, tif) ==
  [NoCall EXCEPT !.op = "placeLimit", !.clientId = c, !.side = s,
                 !.priceIdx = p, !.qty = q, !.tif = tif]
MarketCall(c, s, q) ==
  [NoCall EXCEPT !.op = "placeMarket", !.clientId = c, !.side = s, !.qty = q]

RECURSIVE RunCalls(_, _)
RunCalls(e, calls) ==
  IF calls = <<>> THEN e
  ELSE LET k == calls[1]
           e1 == IF k.op = "placeLimit"
                   THEN placeLimit(e, k.clientId, k.side, k.priceIdx, k.qty, k.tif)
                   ELSE placeMarket(e, k.clientId, k.side, k.qty)
       IN RunCalls(e1, Tail(calls))

\* Preloaded liquidity, as main() preloads the book through placeLimit before
\* the workload starts. Each preload is a call sequence run on a new engine:
\*   QueueAsks, QueueBids   three orders queued on one level
\*   WrappedAsks            the same queue after two fills have moved the
\*                          ring's head, so that the queue wraps around
\*   TwoSided               bids on two levels and an ask
\*   FullPool               a two-sided book that uses every pool slot
QueueAsks ==
  <<LimitCall(1, SELL, 1, 1, GFD), LimitCall(2, SELL, 1, 2, GFD),
    LimitCall(3, SELL, 1, 1, GFD)>>
QueueBids ==
  <<LimitCall(1, BUY, 1, 1, GFD), LimitCall(2, BUY, 1, 2, GFD),
    LimitCall(3, BUY, 1, 1, GFD)>>
WrappedAsks ==
  <<LimitCall(3, SELL, 1, 1, GFD), LimitCall(4, SELL, 1, 1, GFD),
    MarketCall(4, BUY, 2)>> \o QueueAsks
TwoSided ==
  <<LimitCall(1, BUY, 0, 2, GFD), LimitCall(2, BUY, 1, 1, GFD),
    LimitCall(3, SELL, 2, 2, GFD)>>
FullPool ==
  <<LimitCall(1, BUY, 0, 1, GFD), LimitCall(2, BUY, 1, 2, GFD),
    LimitCall(3, SELL, 2, 1, GFD), LimitCall(4, SELL, 2, 2, GFD)>>
\*   FullLevel              a level holding as many orders as its ring takes,
\*                          of clients other than those who call afterwards
FullLevel ==
  <<LimitCall(3, BUY, 1, 1, GFD), LimitCall(4, BUY, 1, 2, GFD),
    LimitCall(5, BUY, 1, 1, GFD)>>
\*   FullBook               every pool slot used, by such clients
FullBook ==
  <<LimitCall(3, BUY, 0, 2, GFD), LimitCall(4, BUY, 1, 1, GFD),
    LimitCall(5, SELL, 2, 1, GFD), LimitCall(6, SELL, 2, 2, GFD)>>
Preloads == {QueueAsks, QueueBids, WrappedAsks, TwoSided, FullPool, FullLevel, FullBook}

RECURSIVE SumTrades(_)
SumTrades(ts) == IF ts = <<>> THEN 0 ELSE ts[1].qty + SumTrades(Tail(ts))

\* A call that submits nothing but a GFD limit order of positive quantity at a
\* price of the book.
Plain(call) ==
  CASE call.op = "placeLimit" ->
         call.tif = GFD /\ call.qty > 0 /\ call.priceIdx \in Prices
    [] call.op = "replace" ->
         call.ret = "false" \/ (call.qty > 0 /\ call.priceIdx \in Prices)
    [] call.op = "placeMarket" -> FALSE
    [] OTHER -> TRUE

\* The accounts a sequence of preload calls (none of which cancels or faults)
\* leaves.
RECURSIVE SubmittedIn(_, _)
SubmittedIn(calls, c) ==
  IF calls = <<>> THEN 0
  ELSE (IF calls[1].op = "placeLimit" /\ calls[1].clientId = c THEN calls[1].qty ELSE 0)
       + SubmittedIn(Tail(calls), c)

AccountsAfter(calls) ==
  [c \in Clients \cup {calls[i].clientId : i \in DOMAIN calls} |->
     [submitted |-> SubmittedIn(calls, c), cancelled |-> 0, dropped |-> 0,
      plain |-> \A i \in DOMAIN calls : calls[i].clientId = c => Plain(calls[i])]]

\* The accounts after a call that found the engine Eng and left e.
Booked(e, call) ==
  LET c == call.clientId
      a == acct[c]
      placed == call.op = "placeLimit" \/ (call.op = "replace" /\ call.ret = "true")
      removed == call.op \in {"cancel", "replace"} /\ call.ret = "true"
      taken == SumTrades(SubSeq(e.trades, Len(trades) + 1, Len(e.trades)))
  IN [acct EXCEPT ![c] =
        [submitted |-> a.submitted + (IF placed THEN call.qty ELSE 0),
         cancelled |-> a.cancelled
                         + (IF removed THEN pool[clientToEngine[c]].qty ELSE 0),
         dropped |-> a.dropped
                       + (IF placed /\ e.fault # NoFault THEN call.qty - taken ELSE 0),
         plain |-> a.plain /\ Plain(call)]]

StartsAs(e, accounts, n) ==
  /\ acct = accounts
  /\ sweep = Idle
  /\ pool = e.pool
  /\ freeList = e.freeList
  /\ bids = e.bids
  /\ asks = e.asks
  /\ bestBid = e.bestBid
  /\ bestAsk = e.bestAsk
  /\ clientToEngine = e.clientToEngine
  /\ trades = e.trades
  /\ admitted = e.admitted
  /\ prio = e.prio
  /\ last = NoCall
  /\ budget = n
  /\ reused = FALSE
  /\ prev = e

\* Engine(): the state after construction, or a preloaded engine.
Init ==
  \/ StartsAs(InitEngine, AccountsAfter(<<>>), MaxCalls)
  \/ \E pre \in Preloads :
       StartsAs(RunCalls(InitEngine, pre), AccountsAfter(pre), MaxLoadedCalls)

\* The engine ids on the book, and those whose order carries client id c.
OnBook(e) ==
  UNION {Range(RingItems(e.bids[i])) \cup Range(RingItems(e.asks[i])) : i \in Prices}
OnBookOf(e, c) == {eid \in OnBook(e) : e.pool[eid].clientId = c}

\* The engine after a call: e is what the call left, call describes it; mid is
\* the engine at the moment the call's limit order (if any) was submitted.
Becomes(e, call, mid) ==
  /\ budget > 0
  /\ budget' = budget - 1
  /\ prev' = Eng
  /\ reused' = (reused \/ (call.op \in {"placeLimit", "replace"}
                             /\ OnBookOf(mid, call.clientId) # {}))
  /\ acct' = Booked(e, call)
  /\ sweep' = sweep
  /\ pool' = e.pool
  /\ freeList' = e.freeList
  /\ bids' = e.bids
  /\ asks' = e.asks
  /\ bestBid' = e.bestBid
  /\ bestAsk' = e.bestAsk
  /\ clientToEngine' = e.clientToEngine
  /\ trades' = e.trades
  /\ admitted' = e.admitted
  /\ prio' = e.prio
  /\ last' = [call EXCEPT !.fault = e.fault,
                          !.ret = IF e.fault # NoFault THEN "throw" ELSE call.ret]

\* What a build may make of book.bids[priceIdx] / book.asks[priceIdx] with an
\* index outside the vector, in AddPassive after the slot was allocated. The
\* address is outside the levels' storage, so either
\*   "crash"   the access faults and the process ends there;
\*   "throw"   the bytes read as a full ring and push throws;
\*   "return"  the push writes into memory that is not the book's and the call
\*             goes on: updateBestAfterAdd, clientToEngine[clientId] = eid.
\* e is the engine at the access.
OutOfBoundsOutcomes(e) ==
  LET eid == CHOOSE x \in Slots : e.pool[x].active /\ e.pool[x].priceIdx \notin Prices
      taker == e.pool[eid]
      e3 == updateBestAfterAdd(e, taker.side, taker.priceIdx)
  IN {[e |-> e, ret |-> "crash"], [e |-> e, ret |-> "throw"],
      [e |-> [e3 EXCEPT !.clientToEngine = MapPut(e3.clientToEngine, taker.clientId, eid)],
       ret |-> "return"]}

\* The engine after a call whose behaviour was undefined: o is the outcome. What
\* any later call does is not defined either; the run is not followed further.
Undefined(o, call) ==
  /\ budget > 0
  /\ budget' = 0
  /\ prev' = Eng
  /\ reused' = reused
  /\ acct' = [acct EXCEPT ![call.clientId].plain = FALSE]
  /\ sweep' = sweep
  /\ pool' = o.e.pool
  /\ freeList' = o.e.freeList
  /\ bids' = o.e.bids
  /\ asks' = o.e.asks
  /\ bestBid' = o.e.bestBid
  /\ bestAsk' = o.e.bestAsk
  /\ clientToEngine' = o.e.clientToEngine
  /\ trades' = o.e.trades
  /\ admitted' = o.e.admitted
  /\ prio' = o.e.prio
  /\ last' = [call EXCEPT !.fault = "OutOfBounds",
                          !.ret = IF o.ret = "return" THEN call.ret ELSE o.ret]

Settles(e, call, mid) ==
  /\ budget > 0
  /\ IF e.fault = "OutOfBounds"
       THEN \E o \in OutOfBoundsOutcomes(e) : Undefined(o, call)
       ELSE Becomes(e, call, mid)

BoolRet(b) == IF b THEN "true" ELSE "false"

PlaceLimit(c, s, p, q, tif) ==
  Settles(placeLimit(Eng, c, s, p, q, tif), LimitCall(c, s, p, q, tif), Eng)

PlaceMarket(c, s, q) ==
  Becomes(placeMarket(Eng, c, s, q), MarketCall(c, s, q), Eng)

Cancel(c) ==
  LET r == cancel(Eng, c)
  IN Becomes(r.e, [NoCall EXCEPT !.op = "cancel", !.clientId = c, !.ret = BoolRet(r.ret)],
             Eng)

Replace(c, p, q) ==
  LET r == replace(Eng, c, p, q)
  IN Settles(r.e, [NoCall EXCEPT !.op = "replace", !.clientId = c, !.priceIdx = p,
                                 !.qty = q, !.ret = BoolRet(r.ret)],
             IF r.ret THEN cancel(Eng, c).e ELSE InitEngine)

Next ==
  \/ \E c \in Clients, s \in Sides, p \in Prices, q \in Qtys, tif \in TIFs :
       PlaceLimit(c, s, p, q, tif)
  \/ \E c \in Clients, s \in Sides, q \in Qtys : PlaceMarket(c, s, q)
  \/ \E c \in Clients : Cancel(c)
  \/ \E c \in Clients, p \in Prices, q \in Qtys : Replace(c, p, q)

Spec == Init /\ [][Next]_vars

\* The same engine under callers that pass any integers: a price index one
\* below and one above the book, and quantities down to -1.
AnyPrices == (0 - 1)..PRICE_LEVELS
AnyQtys == (0 - 1)..MaxQty

InitAnyInput ==
  \/ StartsAs(InitEngine, AccountsAfter(<<>>), MaxAnyCalls)
  \/ \E pre \in Preloads :
       StartsAs(RunCalls(InitEngine, pre), AccountsAfter(pre), MaxAnyLoadedCalls)

NextAnyInput ==
  \/ \E c \in Clients, s \in Sides, p \in AnyPrices, q \in AnyQtys, tif \in TIFs :
       PlaceLimit(c, s, p, q, tif)
  \/ \E c \in Clients, s \in Sides, q \in AnyQtys : PlaceMarket(c, s, q)
  \/ \E c \in Clients : Cancel(c)
  \/ \E c \in Clients, p \in AnyPrices, q \in AnyQtys : Replace(c, p, q)

SpecAnyInput == InitAnyInput /\ [][NextAnyInput]_vars

\* The match loops of matchAndAdd and matchMarket, one iteration at a time.
\* A call starts: the taker is built (placeLimit / placeMarket) and the loop
\* is entered.
Begins(call, type) ==
  /\ sweep.pc = "idle"
  /\ budget > 0
  /\ budget' = budget - 1
  /\ prev' = Eng
  /\ last' = call
  /\ sweep' = [pc |-> "loop",
               taker |-> [DefaultOrder EXCEPT !.clientId = call.clientId,
                            !.side = call.side, !.type = type,
                            !.priceIdx = call.priceIdx, !.qty = call.qty,
                            !.tif = call.tif],
               iters |-> 0]
  /\ UNCHANGED <<pool, freeList, bids, asks, bestBid, bestAsk, clientToEngine,
                 trades, admitted, prio, reused, acct>>

\* The loop condition, of matchAndAdd for a limit taker and of matchMarket for
\* a market taker.
LoopGoesOn(e, taker) ==
  /\ taker.qty > 0
  /\ IF taker.type = LIMIT THEN Crosses(e, taker)
                           ELSE BestOf(e, Opposite(taker.side)) # -1

\* The engine and the taker as x has them, inside the loop.
Continues(x) ==
  /\ sweep' = [sweep EXCEPT !.taker = x.taker, !.iters = sweep.iters + 1]
  /\ pool' = x.e.pool
  /\ freeList' = x.e.freeList
  /\ bids' = x.e.bids
  /\ asks' = x.e.asks
  /\ bestBid' = x.e.bestBid
  /\ bestAsk' = x.e.bestAsk
  /\ clientToEngine' = x.e.clientToEngine
  /\ trades' = x.e.trades
  /\ admitted' = x.e.admitted
  /\ prio' = x.e.prio
  /\ UNCHANGED <<last, budget, reused, prev, acct>>

\* One iteration of the loop.
Iterate ==
  /\ sweep.pc = "loop"
  /\ LoopGoesOn(Eng, sweep.taker)
  /\ Continues(MatchStep([e |-> Eng, taker |-> sweep.taker], Opposite(sweep.taker.side)))

\* The engine as e has it, when the call returns or throws.
Returns(e) ==
  /\ sweep' = Idle
  /\ last' = [last EXCEPT !.fault = e.fault,
                          !.ret = IF e.fault # NoFault THEN "throw" ELSE "void"]
  /\ pool' = e.pool
  /\ freeList' = e.freeList
  /\ bids' = e.bids
  /\ asks' = e.asks
  /\ bestBid' = e.bestBid
  /\ bestAsk' = e.bestAsk
  /\ clientToEngine' = e.clientToEngine
  /\ trades' = e.trades
  /\ admitted' = e.admitted
  /\ prio' = e.prio
  /\ UNCHANGED <<budget, reused, prev, acct>>

\* The loop is left: the residual of a limit taker is added passively, and the
\* call ends.
Finish ==
  /\ sweep.pc = "loop"
  /\ ~LoopGoesOn(Eng, sweep.taker)
  /\ Returns(IF sweep.taker.qty > 0 /\ sweep.taker.type = LIMIT
               THEN AddPassive(Eng, sweep.taker) ELSE Eng)

SweepQtys == 1..MaxSweepQty

InitSweep ==
  \/ StartsAs(InitEngine, AccountsAfter(<<>>), MaxSweepCalls)
  \/ \E pre \in Preloads :
       StartsAs(RunCalls(InitEngine, pre), AccountsAfter(pre), MaxLoadedSweepCalls)

NextSweep ==
  \/ \E c \in Clients, s \in Sides, p \in Prices, q \in SweepQtys :
       Begins(LimitCall(c, s, p, q, GFD), LIMIT)
  \/ \E c \in Clients, s \in Sides, q \in SweepQtys :
       Begins(MarketCall(c, s, q), MARKET)
  \/ Iterate
  \/ Finish
  \/ \E c \in Clients : sweep.pc = "idle" /\ Cancel(c)

\* A call runs to completion on the caller's thread: a loop that can iterate
\* does, and a loop that is left returns.
SpecSweep ==
  InitSweep /\ [][NextSweep]_vars /\ WF_vars(Iterate) /\ WF_vars(Finish)

\* ------------------------------- OBSERVATIONS ----------------------------
\* What the properties below read off an engine value.
ItemsAt(e, s, i) == RingItems(LevelsOf(e, s)[i])

RECURSIVE SumQty(_, _)
SumQty(e, eids) ==
  IF eids = <<>> THEN 0 ELSE e.pool[eids[1]].qty + SumQty(e, Tail(eids))

\* The levels a taker of side s with limit p may trade with, and the quantity
\* resting on them.
Through(s, p) == IF s = BUY THEN {i \in Prices : i <= p} ELSE {i \in Prices : i >= p}

RECURSIVE SumLevels(_, _, _)
SumLevels(e, s, levels) ==
  IF levels = {} THEN 0
  ELSE LET i == CHOOSE j \in levels : TRUE
       IN SumQty(e, ItemsAt(e, s, i)) + SumLevels(e, s, levels \ {i})

Executable(e, s, p) == SumLevels(e, Opposite(s), Through(s, p))

\* The properties below are stated on the state after a call: last is the
\* call, prev the engine it found, the variables the engine it left.

\* The trades the last call appended.
NewTrades == SubSeq(trades, Len(prev.trades) + 1, Len(trades))

\* The program state (without the history variables) of an engine value.
Prog(e) ==
  <<e.pool, e.freeList, e.bids, e.asks, e.bestBid, e.bestAsk, e.clientToEngine,
    e.trades>>

\* The newest trade was taken by client c.
NewestTradeBy(c) == trades # <<>> /\ trades[Len(trades)].takerClient = c

\* The places (side, level, position in the queue) where engine id x is held.
Places(e, x) ==
  {t \in Sides \X Prices \X (1..RING_CAPACITY_PER_LEVEL) :
     /\ t[3] <= Len(ItemsAt(e, t[1], t[2]))
     /\ ItemsAt(e, t[1], t[2])[t[3]] = x}

\* Every level's aggregate quantity is the sum of what its orders have left.
TotalsExact(e) ==
  \A s \in Sides, i \in Prices :
    LevelsOf(e, s)[i].totalQty = SumQty(e, ItemsAt(e, s, i))

\* ------------------------------- PROPERTIES ------------------------------

\* C1: whenever best_bid and best_ask are both set after an operation,
\* best_bid < best_ask: the book is not crossed at rest.
C1_NotCrossed == (bestBid # -1 /\ bestAsk # -1) => bestBid < bestAsk

\* A two-sided book left by a call that traded.
C1_Witness ==
  /\ last.op \in {"placeLimit", "placeMarket", "replace"}
  /\ NewestTradeBy(last.clientId)
  /\ bestBid # -1 /\ bestAsk # -1

\* C2: every trade's maker is, at the moment of the match, the order admitted
\* first among those resting on the best opposite level (lowest non-empty ask
\* for a buy taker, highest non-empty bid for a sell taker).
C2_PriceTimePriority ==
  /\ Len(prio) = Len(trades)
  /\ \A i \in DOMAIN prio : prio[i].maker = prio[i].first

\* From the queue of clients 1, 2, 3 on asks[1]: the order of client 1 left
\* without trading (a cancel), then a taker filled client 2's order, the head of
\* the two that were left, and client 3's order stays.
C2_Witness ==
  /\ last.op \in {"placeLimit", "placeMarket"}
  /\ Len(trades) = 1
  /\ trades[1].makerClient = 2 /\ trades[1].priceIdx = 1
  /\ prio[1].queued = 2
  /\ Len(admitted) = 1 /\ pool[admitted[1]].clientId = 3
  /\ ItemsAt(Eng, SELL, 1) = admitted

\* C3: after place_limit with tif = IOC nothing of the call rests: no order
\* is added under its client id, ClientIndex gains or changes no entry for it,
\* and the call consumes no pool slot.
C3_IocLeavesNoResidual ==
  ((last.op = "placeLimit" /\ last.tif = IOC) =>
       /\ Cardinality(OnBookOf(Eng, last.clientId))
            <= Cardinality(OnBookOf(prev, last.clientId))
       /\ (last.clientId \in DOMAIN clientToEngine =>
             /\ last.clientId \in DOMAIN prev.clientToEngine
             /\ clientToEngine[last.clientId] = prev.clientToEngine[last.clientId])
       /\ Len(freeList) >= Len(prev.freeList))

\* C4: place_limit with tif = FOK and qty greater than the quantity resting
\* on the opposite side on-or-through price_idx changes nothing and emits no
\* trade.
C4_FokRejectedWithoutEffect ==
  ((/\ last.op = "placeLimit" /\ last.tif = FOK
      /\ last.qty > Executable(prev, last.side, last.priceIdx))
       => Prog(Eng) = Prog(prev))

\* C5: place_limit with tif = GFD, an in-range price, qty > 0 and no capacity
\* fault executes min(qty, quantity resting on the opposite side on-or-through
\* price_idx); a positive remainder rests as one new order of that client at
\* the tail of level (side, price_idx), with exactly the remainder, and
\* ClientIndex maps the client id to it; with no remainder nothing rests.
C5_GfdExecutesThenRests ==
  ((/\ last.op = "placeLimit" /\ last.tif = GFD /\ last.ret # "throw"
      /\ last.priceIdx \in Prices /\ last.qty > 0) =>
       LET c == last.clientId
           s == last.side
           p == last.priceIdx
           exec == SumTrades(NewTrades)
           rem == last.qty - exec
           before == ItemsAt(prev, s, p)
           after == ItemsAt(Eng, s, p)
       IN /\ SubSeq(trades, 1, Len(prev.trades)) = prev.trades
          /\ exec = Min(last.qty, Executable(prev, s, p))
          /\ \A i \in Prices \ {p} : ItemsAt(Eng, s, i) = ItemsAt(prev, s, i)
          /\ IF rem > 0
               THEN /\ Len(after) = Len(before) + 1
                    /\ SubSeq(after, 1, Len(before)) = before
                    /\ LET eid == after[Len(after)]
                       IN /\ eid \notin Range(before)
                          /\ pool[eid].active
                          /\ pool[eid].clientId = c
                          /\ pool[eid].side = s
                          /\ pool[eid].priceIdx = p
                          /\ pool[eid].qty = rem
                          /\ c \in DOMAIN clientToEngine
                          /\ clientToEngine[c] = eid
               ELSE after = before)

\* A GFD order that traded part of its quantity and rests with the remainder.
C5_Witness ==
  /\ last.op = "placeLimit" /\ last.tif = GFD /\ last.ret = "void"
  /\ NewestTradeBy(last.clientId)
  /\ last.clientId \in DOMAIN clientToEngine
  /\ LET o == pool[clientToEngine[last.clientId]]
     IN /\ o.side = last.side /\ o.priceIdx = last.priceIdx
        /\ 0 < o.qty /\ o.qty < last.qty

\* C6: place_market executes min(qty, quantity resting on the whole opposite
\* side), takes the opposite levels from the best price outward, and never
\* rests: the taker's own side is as before, ClientIndex gains no entry and no
\* order is added to the book.
C6_MarketSweepsAndNeverRests ==
  ((last.op = "placeMarket" /\ last.qty > 0) =>
       LET s == last.side
           opp == Opposite(s)
           new == NewTrades
       IN /\ SubSeq(trades, 1, Len(prev.trades)) = prev.trades
          /\ SumTrades(new) = Min(last.qty, SumLevels(prev, opp, Prices))
          /\ \A k \in DOMAIN new :
               /\ new[k].takerClient = last.clientId
               /\ \A i \in Prices :
                    (IF s = BUY THEN i < new[k].priceIdx ELSE i > new[k].priceIdx)
                      => ItemsAt(Eng, opp, i) = <<>>
               /\ k > 1 => IF s = BUY THEN new[k - 1].priceIdx <= new[k].priceIdx
                                      ELSE new[k - 1].priceIdx >= new[k].priceIdx
          /\ \A i \in Prices : ItemsAt(Eng, s, i) = ItemsAt(prev, s, i)
          /\ OnBook(Eng) \subseteq OnBook(prev)
          /\ \A k \in DOMAIN clientToEngine :
               k \in DOMAIN prev.clientToEngine /\ clientToEngine[k] = prev.clientToEngine[k]
          /\ Len(freeList) >= Len(prev.freeList))

\* A market order that traded on two price levels and left its own side alone.
C6_Witness ==
  /\ last.op = "placeMarket"
  /\ Len(trades) >= 2
  /\ trades[Len(trades)].takerClient = last.clientId
  /\ trades[Len(trades) - 1].takerClient = last.clientId
  /\ trades[Len(trades)].priceIdx # trades[Len(trades) - 1].priceIdx

\* C7: after every operation best_bid is the highest index with a non-empty
\* bids level and best_ask the lowest index with a non-empty asks level, -1
\* when the side is empty.
C7_BestIsExtremum ==
  /\ bestBid = TrueBest(Eng, BUY)
  /\ bestAsk = TrueBest(Eng, SELL)

\* The order freed last by a cancel.
Freed == pool[freeList[Len(freeList)]]

\* A cancel took the last order off the best bid level and a lower level is
\* the best bid now.
C7_Witness ==
  /\ last.op = "cancel" /\ last.ret = "true"
  /\ Freed.side = BUY
  /\ prev.bestBid = Freed.priceIdx
  /\ bestBid # -1
  /\ bestBid < prev.bestBid

C9_UnknownIdChangesNothing ==
  ((last.op \in {"cancel", "replace"} /\ OnBookOf(prev, last.clientId) = {}) =>
       /\ last.ret = "false"
       /\ Prog(Eng) = Prog(prev))

\* cancel(c) returned false for a client whose order had been on the book and
\* left it without trading: a cancel after a cancel.
C9_Witness ==
  /\ last.op = "cancel" /\ last.ret = "false"
  /\ trades = <<>>
  /\ OnBookOf(prev, last.clientId) = {}
  /\ \E x \in Slots : ~pool[x].active /\ pool[x].clientId = last.clientId

\* What replace is compared on: per level the queue of (client id, quantity,
\* tif) and the aggregate quantity, best_bid/best_ask, the ClientIndex keys and
\* the trade log; engine ids are left out.
QueueView(e, s, i) ==
  [k \in DOMAIN ItemsAt(e, s, i) |->
     LET o == e.pool[ItemsAt(e, s, i)[k]]
     IN [clientId |-> o.clientId, qty |-> o.qty, tif |-> o.tif,
         side |-> o.side, priceIdx |-> o.priceIdx, active |-> o.active]]
BookView(e) ==
  [queues |-> [s \in Sides |-> [i \in Prices |-> QueueView(e, s, i)]],
   totals |-> [s \in Sides |-> [i \in Prices |-> LevelsOf(e, s)[i].totalQty]],
   bestBid |-> e.bestBid, bestAsk |-> e.bestAsk,
   clients |-> DOMAIN e.clientToEngine, trades |-> e.trades]

\* C10: replace(c, new_price_idx, new_qty) on a resting order leaves the state
\* that cancel(c) followed by place_limit(c, same side, new_price_idx, new_qty,
\* same tif) leaves, up to engine ids; a replace at the same price puts the
\* order behind every order already resting on that level.
C10_ReplaceIsCancelThenPlace ==
  ((last.op = "replace" /\ last.ret # "false") =>
       LET c == last.clientId
           eid == prev.clientToEngine[c]
           old == prev.pool[eid]
           thenPlaced == placeLimit(cancel(prev, c).e, c, old.side,
                                    last.priceIdx, last.qty, old.tif)
           before == SeqWithout(ItemsAt(prev, old.side, old.priceIdx), eid)
           after == ItemsAt(Eng, old.side, old.priceIdx)
       IN /\ BookView(Eng) = BookView(thenPlaced)
          /\ last.fault = thenPlaced.fault
          /\ last.priceIdx = old.priceIdx =>
               /\ Len(after) = Len(before) + 1
               /\ SubSeq(after, 1, Len(before)) = before
               /\ pool[after[Len(after)]].clientId = c
               /\ pool[after[Len(after)]].qty = last.qty
               /\ pool[after[Len(after)]].side = old.side)

\* The queue of clients 1, 2, 3 on one level after client 1's order was
\* replaced at its price: 2, 3, 1.
C10_Witness ==
  /\ last.op = "replace" /\ last.ret = "true" /\ last.clientId = 1
  /\ \E s \in Sides :
       /\ Len(ItemsAt(Eng, s, last.priceIdx)) = 3
       /\ [k \in 1..3 |-> pool[ItemsAt(Eng, s, last.priceIdx)[k]].clientId] = <<2, 3, 1>>


\* C11: place_limit with a price_idx outside [0, L) is rejected with no state
\* change: no trade, no resting order consumed or added, pool, free list,
\* ClientIndex and best_bid/best_ask as before the call. Stated on the calls
\* whose behaviour is defined (those that leave no residual to rest).
C11_OutOfRangePriceRejected ==
  ((/\ last.op = "placeLimit" /\ last.priceIdx \notin Prices
      /\ last.fault # "OutOfBounds") =>
       Prog(Eng) = Prog(prev))

\* C12: an order submitted with quantity <= 0 changes nothing, whichever
\* operation submits it: place_limit, place_market, or replace of a resting
\* order with new_qty <= 0 leave levels, best_bid/best_ask, pool, ClientIndex
\* and trade log as before the call.
C12_NonPositiveQuantityChangesNothing ==
  ((last.op \in {"placeLimit", "placeMarket", "replace"} /\ last.qty <= 0) =>
       Prog(Eng) = Prog(prev))


\* C13: a place_limit (or the placement half of replace) that fails with
\* PoolExhausted or LevelFull leaves the engine consistent: the trades of the
\* sweep stay in the log and the taker is dropped completely: it is in no
\* level, has no ClientIndex entry and holds no pool slot, so every pool slot
\* that is not on the free list is present in exactly one level, and
\* best_bid/best_ask and the aggregate quantities satisfy their invariants.
C13_CapacityFaultDropsTaker ==
  ((last.ret = "throw" /\ last.fault \in {"PoolExhausted", "LevelFull"}) =>
       /\ SubSeq(trades, 1, Len(prev.trades)) = prev.trades
       /\ \A k \in DOMAIN NewTrades : NewTrades[k].takerClient = last.clientId
       /\ OnBook(Eng) \subseteq OnBook(prev)
       /\ \A k \in DOMAIN clientToEngine :
            k \in DOMAIN prev.clientToEngine /\ clientToEngine[k] = prev.clientToEngine[k]
       /\ \A x \in Slots \ Range(freeList) : Cardinality(Places(Eng, x)) = 1
       /\ bestBid = TrueBest(Eng, BUY) /\ bestAsk = TrueBest(Eng, SELL)
       /\ TotalsExact(Eng))


\* A client's side of the identity: what it traded as taker and as maker, and
\* what it has resting.
TakenBy(c) == SumTrades(SelectSeq(trades, LAMBDA t : t.takerClient = c))
MadeBy(c) == SumTrades(SelectSeq(trades, LAMBDA t : t.makerClient = c))
RECURSIVE SumOf(_, _)
SumOf(e, eids) ==
  IF eids = {} THEN 0
  ELSE LET x == CHOOSE y \in eids : TRUE IN e.pool[x].qty + SumOf(e, eids \ {x})
RestingOf(c) == SumOf(Eng, OnBookOf(Eng, c))

\* The clients the identity is claimed for: client ids of live orders were
\* unique throughout, and the client submitted only GFD limit orders with
\* positive quantity and in-range price.
Conserving == {c \in DOMAIN acct : ~reused /\ acct[c].plain}

\* C14 as stated: for such a client, traded as taker + traded as maker +
\* resting + removed by its cancels = submitted (a replace counting as a cancel
\* of what was left plus a submission of new_qty).
C14_Conservation ==
  \A c \in Conserving :
    TakenBy(c) + MadeBy(c) + RestingOf(c) + acct[c].cancelled = acct[c].submitted

\* C14 as amended: the identity holds with the quantity a capacity fault
\* (PoolExhausted, LevelFull) dropped of the client's orders counted on the
\* left: traded as taker + traded as maker + resting + removed by its cancels
\* + dropped by capacity faults = submitted.
C14_ConservationCountingDrops ==
  \A c \in Conserving :
    TakenBy(c) + MadeBy(c) + RestingOf(c) + acct[c].cancelled + acct[c].dropped
      = acct[c].submitted

\* A client whose first order was dropped by a capacity fault and whose next
\* order traded as taker.
C14_Witness ==
  \E c \in Conserving :
    /\ acct[c].dropped > 0
    /\ TakenBy(c) > 0
    /\ acct[c].submitted > acct[c].dropped


\* C15: provided no limit order was submitted under a client id that had a
\* resting order at that moment, every order held in a level ring is active in
\* the pool, has the side and price_idx of that level, appears exactly once
\* across all levels of both sides, and ClientIndex maps its client id to its
\* engine id.
C15_RestingOrdersAreIndexed ==
  (~reused =>
     \A s \in Sides, i \in Prices : \A k \in DOMAIN ItemsAt(Eng, s, i) :
       LET x == ItemsAt(Eng, s, i)[k]
       IN /\ x \in Slots
          /\ pool[x].active
          /\ pool[x].engineId = x
          /\ pool[x].side = s
          /\ pool[x].priceIdx = i
          /\ Places(Eng, x) = {<<s, i, k>>}
          /\ pool[x].clientId \in DOMAIN clientToEngine
          /\ clientToEngine[pool[x].clientId] = x)

\* A replace moved an order to another level of a book that holds three orders
\* or more and has traded.
C15_Witness ==
  /\ ~reused
  /\ last.op = "replace" /\ last.ret = "true"
  /\ last.priceIdx # prev.pool[prev.clientToEngine[last.clientId]].priceIdx
  /\ last.clientId \in DOMAIN clientToEngine
  /\ Cardinality(OnBook(Eng)) >= 3
  /\ trades # <<>>

\* C16: also when a client id is reused while an earlier order with that id
\* still rests, every key of ClientIndex maps to a pool slot that is active and
\* whose stored client id is the key; no entry points to a slot that a full
\* fill or a cancel has freed.
C16_IndexEntriesAreLive ==
  \A k \in DOMAIN clientToEngine :
    /\ clientToEngine[k] \in Slots
    /\ pool[clientToEngine[k]].active
    /\ pool[clientToEngine[k]].clientId = k
    /\ clientToEngine[k] \notin Range(freeList)

\* A client id was reused and a fill then erased the entry of that id: the id
\* has an order on the book and no entry, while another client has its entry.
C16_Witness ==
  /\ reused
  /\ NewTrades # <<>>
  /\ \E c \in Clients : OnBookOf(Eng, c) # {} /\ c \notin DOMAIN clientToEngine
  /\ clientToEngine # <<>>

\* C17: the free list holds no slot twice, no active slot is on it, and every
\* slot is on the free list or active; no cancel frees a slot that is already
\* free: the order an entry of ClientIndex points to, when active, is found in
\* its level ring (the not-found branch of cancel is not taken), and what a
\* cancel pushes on the free list was active and off the list before.
C17_PoolPartition ==
  /\ \A a, b \in DOMAIN freeList : a # b => freeList[a] # freeList[b]
  /\ \A x \in Slots : pool[x].active <=> x \notin Range(freeList)
  /\ \A c \in DOMAIN clientToEngine :
       LET eid == clientToEngine[c]
           o == pool[eid]
           lvl == LevelsOf(Eng, o.side)[o.priceIdx]
       IN o.active => FindPos(lvl, lvl.head, eid) # -1
  /\ last.op = "cancel" =>
       \/ freeList = prev.freeList /\ last.ret = "false"
       \/ /\ last.ret = "true"
          /\ Len(freeList) = Len(prev.freeList) + 1
          /\ SubSeq(freeList, 1, Len(prev.freeList)) = prev.freeList
          /\ prev.pool[freeList[Len(freeList)]].active
          /\ freeList[Len(freeList)] \notin Range(prev.freeList)

\* A cancel freed a slot below one that is still active, on a free list that
\* holds other slots: the list is no longer in its initial order.
C17_Witness ==
  /\ last.op = "cancel" /\ last.ret = "true"
  /\ Len(freeList) >= 2
  /\ \E x \in Slots : pool[x].active /\ x > freeList[Len(freeList)]

\* C18: for every level on both sides, the aggregate quantity (totalQty)
\* equals the sum of the remaining quantities of the orders in the level's
\* ring, and is 0 for an empty level.
C18_TotalQtyIsSum ==
  /\ TotalsExact(Eng)
  /\ \A s \in Sides, i \in Prices :
       RingEmpty(LevelsOf(Eng, s)[i]) => LevelsOf(Eng, s)[i].totalQty = 0

\* A sweep filled the head of a queue completely and the next order partly:
\* the level still holds orders and its aggregate went down by both fills.
C18_Witness ==
  /\ Len(NewTrades) >= 2
  /\ \E s \in Sides, i \in Prices :
       /\ NewTrades[1].priceIdx = i /\ NewTrades[2].priceIdx = i
       /\ ItemsAt(Eng, s, i) # <<>>
       /\ LevelsOf(Eng, s)[i].totalQty
            = LevelsOf(prev, s)[i].totalQty - NewTrades[1].qty - NewTrades[2].qty
       /\ pool[ItemsAt(Eng, s, i)[1]].qty < prev.pool[ItemsAt(Eng, s, i)[1]].qty

\* The side of the order the last call submitted (for a replace, the side of
\* the order it replaced).
LastSide ==
  IF last.op = "replace" /\ last.clientId \in DOMAIN prev.clientToEngine
    THEN prev.pool[prev.clientToEngine[last.clientId]].side
    ELSE last.side

\* C19: every trade is recorded at the price index of the level its maker
\* rested on; a trade of a buy limit taker has price_idx <= the taker's
\* price_idx, a trade of a sell limit taker price_idx >= the taker's; within
\* one taker's sweep the trade prices do not decrease for a buy and do not
\* increase for a sell.
C19_TradesAtMakerPriceWithinLimit ==
  /\ Len(prio) = Len(trades)
  /\ \A k \in DOMAIN trades : trades[k].priceIdx = prio[k].level
  /\ \A k \in DOMAIN NewTrades :
       /\ last.op \in {"placeLimit", "replace"} =>
            IF LastSide = BUY THEN NewTrades[k].priceIdx <= last.priceIdx
                              ELSE NewTrades[k].priceIdx >= last.priceIdx
       /\ k > 1 => IF LastSide = BUY
                     THEN NewTrades[k - 1].priceIdx <= NewTrades[k].priceIdx
                     ELSE NewTrades[k - 1].priceIdx >= NewTrades[k].priceIdx

\* A limit order traded on two price levels, the first of them strictly
\* inside its limit.
C19_Witness ==
  /\ last.op = "placeLimit"
  /\ Len(NewTrades) >= 2
  /\ NewTrades[1].priceIdx # NewTrades[2].priceIdx
  /\ NewTrades[1].priceIdx # last.priceIdx

\* C20: with any integer quantities as inputs (zero and negative ones too),
\* every order resting in a level has remaining quantity >= 1, every trade has
\* quantity >= 1 and at most what its taker and its maker had left at the
\* match, and an order whose remaining quantity reached 0 is off its level and
\* its slot on the free list when the operation ends. Stated on the runs whose
\* behaviour is defined.
C20_QuantitiesStayPositive ==
  (last.fault # "OutOfBounds" =>
     /\ \A x \in OnBook(Eng) : pool[x].qty >= 1
     /\ Len(prio) = Len(trades)
     /\ \A k \in DOMAIN trades :
          /\ trades[k].qty >= 1
          /\ trades[k].qty <= prio[k].takerQty
          /\ trades[k].qty <= prio[k].makerQty
     /\ \A x \in Slots :
          pool[x].qty <= 0 => x \notin OnBook(Eng) /\ x \in Range(freeList) /\ ~pool[x].active)

\* A call with a negative quantity on a book that has orders resting, after a
\* trade that filled its maker completely.
C20_Witness ==
  /\ last.op \in {"placeLimit", "placeMarket", "replace"}
  /\ last.qty < 0
  /\ OnBook(Eng) # {}
  /\ \E k \in DOMAIN trades : trades[k].qty = prio[k].makerQty


\* The cached best price of the side the taker in the loop matches against.
BestOpposite == BestOf(Eng, Opposite(sweep.taker.side))

\* How far the cached best opposite price is from running out: 0 for -1,
\* else the number of levels from it to the far end of the book.
BestRank(e, taker) ==
  LET b == BestOf(e, Opposite(taker.side))
  IN IF b = -1 THEN 0
     ELSE IF taker.side = BUY THEN PRICE_LEVELS - b ELSE b + 1

\* C21: every place_limit and place_market call terminates: each iteration
\* of the sweep loop either strictly reduces the taker's remaining quantity
\* (which never grows and never goes below 0) or moves the cached best
\* opposite price strictly away from the current index (up for the asks, down
\* for the bids) or to -1, so that a loop never does more iterations than the
\* submitted quantity plus the number of price levels.
C21_SweepTerminates ==
  /\ [][(sweep.pc = "loop" /\ sweep'.pc = "loop") =>
          /\ sweep'.iters = sweep.iters + 1
          /\ sweep'.taker.qty >= 0
          /\ sweep'.taker.qty <= sweep.taker.qty
          /\ \/ sweep'.taker.qty < sweep.taker.qty
             \/ BestRank(Eng, sweep.taker)' < BestRank(Eng, sweep.taker)]_vars
  /\ [](sweep.pc = "loop" => sweep.iters <= last.qty + PRICE_LEVELS)

\* A loop after its second iteration, the taker still unfilled and the cached
\* best opposite price moved on since the call started.
C21_Witness ==
  /\ sweep.pc = "loop"
  /\ Len(NewTrades) >= 2
  /\ sweep.taker.qty > 0
  /\ BestOpposite # BestOf(prev, Opposite(sweep.taker.side))

====
